---------------------------- MODULE Spec2Model ----------------------------
(***************************************************************************)
(* A model of the bhavcopy ingestion and accumulation pipeline             *)
(* (src/bhav.py) and of the stock screener (src/dashboard.py).             *)
(*                                                                         *)
(* Three specifications share the definitions below:                       *)
(*   Spec         the script of bhav.py: the rolling-window loop, the      *)
(*                backward search of download_bhavcopy and                 *)
(*                process_bhavcopy on whatever file was found;             *)
(*   SpecIngest   process_bhavcopy called on a prior file, then twice on   *)
(*                the same file, over a wider set of files;                *)
(*   SpecAnalyze  get_accumulation_stocks (bhav.py) and                    *)
(*                get_filtered_stocks (dashboard.py) over tables drawn     *)
(*                from a bounded set.                                      *)
(*                                                                         *)
(* Modelling conventions.                                                  *)
(*   - A cell of text is a sequence of one-character strings, so that      *)
(*     strip, replace and float() are computed and not assumed.            *)
(*   - Delivery percentages are whole numbers (no decimal point occurs in  *)
(*     the cells used); a mean is kept as the pair (sum, count) and         *)
(*     compared by cross-multiplication, which is exact.                   *)
(*   - A day is a natural number; day 0 is a Monday, so weekday(d) = d % 7 *)
(*     is Python's date.weekday().  The text "%Y-%m-%d" of a day orders as *)
(*     the day does.                                                       *)
(*   - The table bhavcopy is a bag of rows: SQLite admits NULL in the      *)
(*     columns of a composite PRIMARY KEY of an ordinary table and takes   *)
(*     NULLs as distinct, so two equal rows with a NULL date can coexist.  *)
(*   - Input domain: a file is a CSV that read_csv parses, with string     *)
(*     headers and one name for the date column (DATE1 or DATE, not both). *)
(***************************************************************************)
EXTENDS Integers, Sequences, FiniteSets, Bags, TLC

VARIABLES
    store,       \* table bhavcopy of bhavcopy_data.db: a bag of stored rows
    cache,       \* files bhavcopy_<date>.csv on disk: day -> file, or NoFile
    today,       \* datetime.today(), as a day number
    i,           \* index of the rolling-window loop (bhav.py:169)
    date,        \* the candidate date inside download_bhavcopy
    attempts,    \* remaining attempts inside download_bhavcopy
    file_path,   \* what download_bhavcopy returned: a day, or None
    pc,          \* position of the script
    steps,       \* one-day decrements made by the current step back
    fetch_log,   \* the requests.get calls made for the current requested date
    report,      \* one entry per finished date of the window
    file,        \* SpecIngest: the file handed to process_bhavcopy
    last,        \* SpecIngest: what the last process_bhavcopy call returned
    before,      \* SpecIngest: the table before the last call
    table,       \* SpecAnalyze: table bhavcopy of the screener's bhavcopy.db
    volume_threshold,   \* SpecAnalyze: the screener's volume filter
    accumulation_df,    \* SpecAnalyze: result of get_accumulation_stocks
    accumulating_stocks \* SpecAnalyze: result of get_filtered_stocks

vars == << store, cache, today, i, date, attempts, file_path, pc, steps,
           fetch_log, report, file, last, before, table, volume_threshold,
           accumulation_df, accumulating_stocks >>

pipelineVars == << cache, today, i, date, attempts, file_path, steps,
                   fetch_log, report >>
ingestVars == << file, last, before >>
analyzeVars == << table, volume_threshold, accumulation_df,
                  accumulating_stocks >>

-----------------------------------------------------------------------------
(* Bounds of the model *)

\* longest row sequence of a file in SpecIngest
MaxRows == 2
\* most required columns a defective header lacks
MaxMissing == 1
\* days of the rolling window (30 in the script)
Days == 2
\* most rows of a table in SpecAnalyze
MaxTableRows == 3

-----------------------------------------------------------------------------
(* Values *)

None == "None"
NoFile == [header |-> {}, rows |-> <<>>, absent |-> TRUE]

\* A date value of a data frame or of the table: a day, pandas' missing value
\* (NaN, what strftime gives for NaT) or SQL NULL (None when read back).
Day(d) == [kind |-> "day", day |-> d]
NaN == [kind |-> "NaN", day |-> 0]
NULL == [kind |-> "NULL", day |-> 0]

Symbols == {"A", "B"}

Digits == {"0", "1", "2", "3", "4", "5", "6", "7", "8", "9"}
DigitVal(c) ==
    CASE c = "0" -> 0 [] c = "1" -> 1 [] c = "2" -> 2 [] c = "3" -> 3
      [] c = "4" -> 4 [] c = "5" -> 5 [] c = "6" -> 6 [] c = "7" -> 7
      [] c = "8" -> 8 [] c = "9" -> 9

-----------------------------------------------------------------------------
(* Text cells: what read_csv, strip, replace, astype and float do *)

\* pandas' float NaN in a column of text: no text cell equals it, a text
\* cell being made of one-character strings.
NaNCell == <<"NaN">>

\* read_csv (bhav.py:72): an empty field is read as NaN, any other as text
read_csv(cell) == IF cell = <<>> THEN NaNCell ELSE cell

RECURSIVE LStrip(_)
LStrip(s) == IF s # <<>> /\ Head(s) = " " THEN LStrip(Tail(s)) ELSE s

RECURSIVE RStrip(_)
RStrip(s) ==
    IF s # <<>> /\ s[Len(s)] = " " THEN RStrip(SubSeq(s, 1, Len(s) - 1)) ELSE s

\* str.strip()
Strip(s) == RStrip(LStrip(s))

\* lambda x: x.strip() if isinstance(x, str) else x   (bhav.py:74)
strip_cell(x) == IF x = NaNCell THEN x ELSE Strip(x)

\* astype(str): NaN becomes the text "nan"
astype_str(x) == IF x = NaNCell THEN <<"n", "a", "n">> ELSE x

\* str.replace(ch, "")
Remove(s, ch) == SelectSeq(s, LAMBDA c : c # ch)

RECURSIVE Value(_)
Value(s) ==
    IF s = <<>> THEN 0
    ELSE 10 * Value(SubSeq(s, 1, Len(s) - 1)) + DigitVal(s[Len(s)])

AllDigits(s) == s # <<>> /\ \A k \in 1..Len(s) : s[k] \in Digits

\* float(text): ok = FALSE stands for ValueError, nan for the value nan
float(s) ==
    LET t == Strip(s)
    IN  IF t = <<"n", "a", "n">> THEN [ok |-> TRUE, nan |-> TRUE, val |-> 0]
        ELSE IF AllDigits(t) THEN [ok |-> TRUE, nan |-> FALSE, val |-> Value(t)]
        ELSE IF t # <<>> /\ Head(t) = "-" /\ AllDigits(Tail(t))
             THEN [ok |-> TRUE, nan |-> FALSE, val |-> 0 - Value(Tail(t))]
        ELSE [ok |-> FALSE, nan |-> FALSE, val |-> 0]

\* .astype(str).str.replace(",", "").str.replace("%", "").astype(float) on
\* one cell (bhav.py:110)
deliv_per_float(x) == float(Remove(Remove(astype_str(x), ","), "%"))

\* pd.to_datetime(..., errors="coerce").dt.strftime("%Y-%m-%d") on one cell
\* (bhav.py:85): the text of the day the cell names, NaN when it names none.
\* The date handed to process_bhavcopy plays no part.
to_datetime_requested(cell, requested) == Day(requested)
to_datetime(cell, requested) == IF cell.valid THEN Day(cell.day) ELSE NaN

-----------------------------------------------------------------------------
(* Columns *)

\* df.columns.str.strip().str.upper() on the header names that occur
StripUpper(h) ==
    CASE h = " SERIES" -> "SERIES"
      [] h = " DATE1" -> "DATE1"
      [] h = " deliv_per" -> "DELIV_PER"
      [] h = "Close_Price " -> "CLOSE_PRICE"
      [] OTHER -> h

\* the columns after the rename DATE1 -> DATE (bhav.py:73, 80-81)
columns(f) ==
    LET cols == {StripUpper(h) : h \in f.header}
    IN  IF "DATE1" \in cols THEN (cols \ {"DATE1"}) \cup {"DATE"} ELSE cols

required_cols_no_series ==
    {"SYMBOL", "DELIV_PER", "DELIV_QTY", "TTL_TRD_QNTY", "CLOSE_PRICE",
     "NO_OF_TRADES", "DATE"}
required_cols ==
    {"SYMBOL", "SERIES", "DELIV_PER", "DELIV_QTY", "TTL_TRD_QNTY",
     "CLOSE_PRICE", "NO_OF_TRADES", "DATE"}

missing_cols(f) == required_cols \ columns(f)

-----------------------------------------------------------------------------
(* The table *)

\* setup_database: the table exists and, on first use, is empty
setup_database == EmptyBag

SeqToBag(s) ==
    [e \in {s[k] : k \in DOMAIN s} |->
        Cardinality({k \in DOMAIN s : s[k] = e})]

\* pd.read_sql("SELECT date, symbol FROM bhavcopy").apply(tuple, axis=1)
existing_records(db) == {<<e.date, e.symbol>> : e \in BagToSet(db)}

\* the row to_sql writes for a row of the frame: NaN is written as NULL
sql_row(r) ==
    [date |-> IF r.DATE = NaN THEN NULL ELSE r.DATE,
     symbol |-> r.SYMBOL,
     series |-> r.SERIES,
     deliv_per |-> r.DELIV_PER.val,
     deliv_qty |-> r.DELIV_QTY,
     ttl_trd_qnty |-> r.TTL_TRD_QNTY,
     no_of_trades |-> r.NO_OF_TRADES,
     close_price |-> r.CLOSE_PRICE]

\* PRIMARY KEY (date, symbol): an insert fails when a row's key, its date
\* not NULL, is that of a stored row or of an earlier row of the insert
IntegrityError(db, rows) ==
    \E k \in 1..Len(rows) :
        /\ rows[k].date # NULL
        /\ \/ \E e \in BagToSet(db) :
                 e.date = rows[k].date /\ e.symbol = rows[k].symbol
           \/ \E j \in 1..(k - 1) :
                 rows[j].date = rows[k].date /\ rows[j].symbol = rows[k].symbol

-----------------------------------------------------------------------------
(* process_bhavcopy *)

\* What one call leaves behind: the value returned (None, or "df" with the
\* rows of the returned frame), the message written (st.error, st.warning),
\* the missing columns the message names, the table afterwards and the
\* exception that leaves the call ("none": the call returns).
Result(ret, rows, msg, missing, db, exc) ==
    [ret |-> ret, rows |-> rows, msg |-> msg, missing |-> missing,
     db |-> db, exc |-> exc]

NoResult == Result(None, <<>>, "none", {}, EmptyBag, "none")

\* bhav.py:74 and 85 on one row
normalize(r, requested) ==
    [r EXCEPT !.SERIES = strip_cell(read_csv(r.SERIES)),
              !.DELIV_PER = strip_cell(read_csv(r.DELIV_PER)),
              !.DATE = to_datetime(r.DATE, requested)]

\* The body of the try block (bhav.py:72-139).  An exception raised inside
\* the with block rolls the insert back: the table is as it was.
process_body(f, requested, db) ==
    LET df0 == [k \in 1..Len(f.rows) |-> normalize(f.rows[k], requested)]
        eq == SelectSeq(df0, LAMBDA r : r.SERIES = <<"E", "Q">>)
        conv == [k \in 1..Len(eq) |->
                    [eq[k] EXCEPT !.DELIV_PER = deliv_per_float(@)]]
        dropna == SelectSeq(conv, LAMBDA r : ~r.DELIV_PER.nan)
        high == SelectSeq(dropna, LAMBDA r : r.DELIV_PER.val > 60)
        fresh == SelectSeq(high,
                    LAMBDA r : <<r.DATE, r.SYMBOL>> \notin existing_records(db))
        rows == [k \in 1..Len(fresh) |-> sql_row(fresh[k])]
    IN  IF missing_cols(f) # {}
        THEN Result(None, <<>>, "Missing columns in Bhavcopy file",
                    missing_cols(f), db, "none")
        ELSE IF ~({"SERIES", "DELIV_PER", "DELIV_QTY"} \subseteq columns(f))
        THEN Result(None, <<>>, "none", {}, db, "KeyError")
        ELSE IF \E k \in 1..Len(conv) : ~conv[k].DELIV_PER.ok
        THEN Result(None, <<>>, "none", {}, db, "ValueError")
        ELSE IF Len(high) = 0
        THEN Result(None, <<>>, "No stocks found with DELIV_PER > 60%",
                    {}, db, "none")
        ELSE IF ~(required_cols \subseteq columns(f))
        THEN Result(None, <<>>, "none", {}, db, "KeyError")
        ELSE IF Len(fresh) # 0 /\ IntegrityError(db, rows)
        THEN Result(None, <<>>, "none", {}, db, "IntegrityError")
        ELSE Result("df", rows, "none", {}, db (+) SeqToBag(rows), "none")

\* process_bhavcopy without its except clause
process_bhavcopy_uncaught(f, requested, db) == process_body(f, requested, db)

\* process_bhavcopy(file_path, date, db_path): the try block and its
\* except Exception (bhav.py:140-142), which returns None
process_bhavcopy(f, requested, db) ==
    LET r == process_body(f, requested, db)
    IN  IF r.exc # "none"
        THEN Result(None, <<>>, "Error processing Bhavcopy file", {}, db,
                    "none")
        ELSE r

-----------------------------------------------------------------------------
(* Files *)

DateCell(d) == [valid |-> TRUE, day |-> d]
JunkDate == [valid |-> FALSE, day |-> 0]

Row(sym, series, deliv, datecell) ==
    [SYMBOL |-> sym, SERIES |-> series, DELIV_PER |-> deliv,
     DATE |-> datecell, DELIV_QTY |-> 500, TTL_TRD_QNTY |-> 1000,
     CLOSE_PRICE |-> 10, NO_OF_TRADES |-> 150000]

EQ == <<" ", "E", "Q">>
BE == <<" ", "B", "E">>

\* the header of an exchange file, all required columns present
FullHeader ==
    {"SYMBOL", " SERIES", " DATE1", " deliv_per", "DELIV_QTY",
     "TTL_TRD_QNTY", "Close_Price ", "NO_OF_TRADES"}

\* the same with the date column named DATE
DateHeader == (FullHeader \ {" DATE1"}) \cup {"DATE"}

\* headers lacking between one and MaxMissing required columns
DefectiveHeaders ==
    {FullHeader \ m : m \in {x \in SUBSET FullHeader :
                                Cardinality(x) \in 1..MaxMissing}}

File(header, rows) == [header |-> header, rows |-> rows, absent |-> FALSE]

\* the rows SpecIngest builds files from, all dated day 1 or undated
RawRows ==
    {Row("A", EQ, <<"7", "0", "%">>, DateCell(1)),
     Row("B", EQ, <<"1", ",", "2", "0", "0">>, DateCell(1)),
     Row("A", EQ, <<"5", "5">>, DateCell(1)),
     Row("B", EQ, <<"-">>, DateCell(1)),
     Row("B", EQ, <<>>, DateCell(1)),
     Row("A", BE, <<"-">>, DateCell(1)),
     Row("A", EQ, <<"7", "0", "%">>, JunkDate),
     Row("A", EQ, <<" ", "8", "0">>, DateCell(1))}

RowSeqs == UNION {[1..n -> RawRows] : n \in 0..MaxRows}

IngestFiles ==
    {File(h, rows) : h \in {FullHeader, DateHeader}, rows \in RowSeqs}
    \cup {File(h, <<Row("A", EQ, <<"7", "0", "%">>, DateCell(1))>>) :
             h \in DefectiveHeaders}

\* the files that fill the table before the file under study is ingested
PriorFiles ==
    {File(FullHeader, <<>>),
     File(FullHeader, <<Row("A", EQ, <<"7", "0", "%">>, DateCell(1))>>),
     File(FullHeader, <<Row("A", EQ, <<"7", "0", "%">>, DateCell(1)),
                        Row("B", EQ, <<"1", ",", "2", "0", "0">>, DateCell(1))>>),
     File(FullHeader, <<Row("A", EQ, <<"7", "0", "%">>, JunkDate)>>)}

-----------------------------------------------------------------------------
(* SpecIngest: process_bhavcopy on a prior file, then twice on one file *)

PipelineIdle ==
    /\ cache = <<>>
    /\ today = 0
    /\ i = 0
    /\ date = 0
    /\ attempts = 0
    /\ file_path = None
    /\ steps = 0
    /\ fetch_log = <<>>
    /\ report = <<>>

IngestIdle ==
    /\ file = NoFile
    /\ last = NoResult
    /\ before = EmptyBag

AnalyzeIdle ==
    /\ table = {}
    /\ volume_threshold = 0
    /\ accumulation_df = <<>>
    /\ accumulating_stocks = {}

InitIngest ==
    /\ store = setup_database
    /\ pc = "prior"
    /\ PipelineIdle
    /\ IngestIdle
    /\ AnalyzeIdle

\* one call of process_bhavcopy on f
Call(f) ==
    \E requested \in 1..2 :
        LET r == process_bhavcopy(f, requested, store)
        IN  /\ file' = f
            /\ last' = r
            /\ before' = store
            /\ store' = r.db

IngestPrior ==
    /\ pc = "prior"
    /\ \E f \in PriorFiles : Call(f)
    /\ pc' = "first"
    /\ UNCHANGED << pipelineVars, analyzeVars >>

IngestFirst ==
    /\ pc = "first"
    /\ \E f \in IngestFiles : Call(f)
    /\ pc' = "second"
    /\ UNCHANGED << pipelineVars, analyzeVars >>

IngestAgain ==
    /\ pc = "second"
    /\ Call(file)
    /\ pc' = "again"
    /\ UNCHANGED << pipelineVars, analyzeVars >>

NextIngest == IngestPrior \/ IngestFirst \/ IngestAgain

SpecIngest == InitIngest /\ [][NextIngest]_vars

-----------------------------------------------------------------------------
(* Spec: the script of bhav.py *)

\* date.weekday(): Monday is 0, Sunday is 6
weekday(d) == d % 7

is_trading_day_saturday(d) == weekday(d) < 6
is_trading_day(d) == weekday(d) < 5

\* download_bhavcopy returns a path, bhavcopy_<day>.csv, or None
PathOf(d) == <<d>>
NonePath == <<>>

\* datetime.today(): one day of each weekday
TodayChoices == 14..20

\* What the archive may answer with status 200 for day d.  Its file for a day
\* holds that day's trades: every row carries the day in DATE1.
ServerFiles(d) ==
    {File(FullHeader, <<Row("A", EQ, <<"7", "0", "%">>, DateCell(d))>>),
     File(FullHeader, <<Row("A", EQ, <<"5", "5">>, DateCell(d))>>),
     File(FullHeader \ {" SERIES"},
          <<Row("A", EQ, <<"7", "0", "%">>, DateCell(d))>>),
     File(FullHeader, <<Row("B", EQ, <<"-">>, DateCell(d)),
                        Row("A", EQ, <<"7", "0", "%">>, DateCell(d))>>)}

Init ==
    /\ store = setup_database
    /\ cache = <<>>
    /\ today \in TodayChoices
    /\ i = 0
    /\ date = 0
    /\ attempts = 0
    /\ file_path = NonePath
    /\ pc = "loop"
    /\ steps = 0
    /\ fetch_log = <<>>
    /\ report = <<>>
    /\ IngestIdle
    /\ AnalyzeIdle

\* for i in range(days): date = today - i; download_bhavcopy(date) is entered
\* (bhav.py:169-172, 38)
LoopNext ==
    /\ pc = "loop"
    /\ i < Days
    /\ date' = today - i
    /\ attempts' = 3
    /\ steps' = 0
    /\ fetch_log' = <<>>
    /\ file_path' = NonePath
    /\ pc' = "download"
    /\ UNCHANGED << store, cache, today, i, report, ingestVars, analyzeVars >>

\* the window is exhausted: the script goes on to its reports
LoopEnd ==
    /\ pc = "loop"
    /\ i = Days
    /\ pc' = "done"
    /\ UNCHANGED << store, pipelineVars, ingestVars, analyzeVars >>

\* os.path.exists(file_path): the cached file is returned (bhav.py:45-46)
Cached ==
    /\ pc = "download"
    /\ attempts > 0
    /\ date \in DOMAIN cache
    /\ file_path' = PathOf(date)
    /\ pc' = "process"
    /\ UNCHANGED << store, cache, today, i, date, attempts, steps, fetch_log,
                    report, ingestVars, analyzeVars >>

\* requests.get answers 200: the content is written and the path returned
\* (bhav.py:49-54)
FetchOk ==
    /\ pc = "download"
    /\ attempts > 0
    /\ date \notin DOMAIN cache
    /\ \E f \in ServerFiles(date) :
          cache' = [d \in DOMAIN cache \cup {date} |->
                       IF d = date THEN f ELSE cache[d]]
    /\ fetch_log' = Append(fetch_log, [date |-> date, result |-> "200"])
    /\ file_path' = PathOf(date)
    /\ pc' = "process"
    /\ UNCHANGED << store, today, i, date, attempts, steps, report,
                    ingestVars, analyzeVars >>

\* requests.get answers another status: one day back (bhav.py:55-57)
FetchAbsent ==
    /\ pc = "download"
    /\ attempts > 0
    /\ date \notin DOMAIN cache
    /\ fetch_log' = Append(fetch_log, [date |-> date, result |-> "absent"])
    /\ date' = date - 1
    /\ steps' = 1
    /\ pc' = "skip"
    /\ UNCHANGED << store, cache, today, i, attempts, file_path, report,
                    ingestVars, analyzeVars >>

\* while not is_trading_day(date): date -= timedelta(days=1)  (bhav.py:58-59)
SkipWeekend ==
    /\ pc = "skip"
    /\ ~is_trading_day(date)
    /\ date' = date - 1
    /\ steps' = steps + 1
    /\ UNCHANGED << store, cache, today, i, attempts, file_path, pc,
                    fetch_log, report, ingestVars, analyzeVars >>

\* the weekend loop ends: attempts -= 1, back to the while (bhav.py:60, 40)
SkipDone ==
    /\ pc = "skip"
    /\ is_trading_day(date)
    /\ attempts' = attempts - 1
    /\ pc' = "download"
    /\ UNCHANGED << store, cache, today, i, date, file_path, steps,
                    fetch_log, report, ingestVars, analyzeVars >>

\* a variant of FetchError that takes the exception for an absent file
FetchErrorRetry ==
    /\ pc = "download"
    /\ attempts > 0
    /\ date \notin DOMAIN cache
    /\ fetch_log' = Append(fetch_log, [date |-> date, result |-> "error"])
    /\ date' = date - 1
    /\ steps' = 1
    /\ pc' = "skip"
    /\ UNCHANGED << store, cache, today, i, attempts, file_path, report,
                    ingestVars, analyzeVars >>

\* requests.get raises RequestException: st.error, return None
\* (bhav.py:61-63)
FetchError ==
    /\ pc = "download"
    /\ attempts > 0
    /\ date \notin DOMAIN cache
    /\ fetch_log' = Append(fetch_log, [date |-> date, result |-> "error"])
    /\ file_path' = NonePath
    /\ pc' = "process"
    /\ UNCHANGED << store, cache, today, i, date, attempts, steps, report,
                    ingestVars, analyzeVars >>

\* attempts is 0: st.warning, return None (bhav.py:40, 65-66)
Exhausted ==
    /\ pc = "download"
    /\ attempts = 0
    /\ file_path' = NonePath
    /\ pc' = "process"
    /\ UNCHANGED << store, cache, today, i, date, attempts, steps, fetch_log,
                    report, ingestVars, analyzeVars >>

\* One entry of the report: the requested day, what download_bhavcopy made of
\* it, what process_bhavcopy returned and the line the loop wrote.
Entry(requested, path, fetches, r, shown) ==
    [requested |-> requested, found |-> path, fetches |-> fetches,
     ret |-> r.ret, rows |-> r.rows, msg |-> r.msg, missing |-> r.missing,
     shown |-> shown]

\* if file_path: process_bhavcopy(file_path, date, db_path) and the line that
\* reports it (bhav.py:174-179).  An exception leaving process_bhavcopy would
\* end the script.
Process ==
    /\ pc = "process"
    /\ file_path # NonePath
    /\ LET r == process_bhavcopy(cache[file_path[1]], today - i, store)
       IN  /\ store' = r.db
           /\ IF r.exc # "none"
              THEN /\ pc' = "aborted"
                   /\ UNCHANGED << i, report >>
              ELSE /\ pc' = "loop"
                   /\ i' = i + 1
                   /\ report' = Append(report,
                         Entry(today - i, file_path, fetch_log, r,
                               IF r.ret # None
                               THEN "Processed data successfully"
                               ELSE "Processing failed"))
    /\ UNCHANGED << cache, today, date, attempts, file_path, steps,
                    fetch_log, ingestVars, analyzeVars >>

\* file_path is None: nothing is processed and the loop writes nothing
NoFileReturned ==
    /\ pc = "process"
    /\ file_path = NonePath
    /\ pc' = "loop"
    /\ i' = i + 1
    /\ report' = Append(report,
          Entry(today - i, NonePath, fetch_log,
                Result("not run", <<>>, "none", {}, store, "none"), "none"))
    /\ UNCHANGED << store, cache, today, date, attempts, file_path, steps,
                    fetch_log, ingestVars, analyzeVars >>

Next ==
    \/ LoopNext
    \/ LoopEnd
    \/ Cached
    \/ FetchOk
    \/ FetchAbsent
    \/ SkipWeekend
    \/ SkipDone
    \/ FetchError
    \/ Exhausted
    \/ Process
    \/ NoFileReturned

Spec == Init /\ [][Next]_vars

-----------------------------------------------------------------------------
(* SpecAnalyze: get_accumulation_stocks and the screener's                 *)
(* get_filtered_stocks, over tables drawn from a bounded set               *)

RECURSIVE SumBag(_, _, _)
\* the sum of column c over the rows S of the bag db, copies counted
SumBag(S, c, db) ==
    IF S = {} THEN 0
    ELSE LET x == CHOOSE x \in S : TRUE
         IN  x[c] * CopiesIn(x, db) + SumBag(S \ {x}, c, db)

RECURSIVE CountBag(_, _)
CountBag(S, db) ==
    IF S = {} THEN 0
    ELSE LET x == CHOOSE x \in S : TRUE
         IN  CopiesIn(x, db) + CountBag(S \ {x}, db)

\* WHERE date >= date('now', '-{days} days'): a NULL date compares to NULL
\* and the row is left out
in_window(e, now, days) == e.date # NULL /\ e.date.day >= now - days

\* GROUP BY symbol with the three AVG columns: a mean is (sum, n)
group_row(sym, S, db) ==
    LET g == {e \in S : e.symbol = sym}
    IN  [symbol |-> sym,
         sum_deliv_per |-> SumBag(g, "deliv_per", db),
         sum_deliv_qty |-> SumBag(g, "deliv_qty", db),
         sum_trades |-> SumBag(g, "no_of_trades", db),
         n |-> CountBag(g, db)]

\* HAVING avg_deliv_per > 60 AND avg_trades > 100000
having_any(g) == g.sum_deliv_per > 60 * g.n \/ g.sum_trades > 100000 * g.n
having(g) == g.sum_deliv_per > 60 * g.n /\ g.sum_trades > 100000 * g.n

\* ORDER BY avg_deliv_qty DESC on two adjacent rows of the result
ordered(g, h) == g.sum_deliv_qty * h.n >= h.sum_deliv_qty * g.n

\* get_accumulation_stocks(days): the results the query may give, rows of
\* equal avg_deliv_qty coming in either order (bhav.py:145-162)
get_accumulation_stocks(days, now, db) ==
    LET S == {e \in BagToSet(db) : in_window(e, now, days)}
        groups == {group_row(sym, S, db) : sym \in {e.symbol : e \in S}}
        kept == {g \in groups : having(g)}
        n == Cardinality(kept)
    IN  {s \in [1..n -> kept] :
            /\ \A j, k \in 1..n : j # k => s[j] # s[k]
            /\ \A k \in 1..(n - 1) : ordered(s[k], s[k + 1])}

\* stock_df.sort_values("date"): the rows of S in date order
sort_values(S) ==
    CHOOSE s \in [1..Cardinality(S) -> S] :
        /\ \A j, k \in 1..Cardinality(S) : j # k => s[j] # s[k]
        /\ \A k \in 1..(Cardinality(S) - 1) : s[k].date <= s[k + 1].date

\* Series.is_monotonic_increasing: each value is >= the one before
is_strictly_increasing(s) ==
    \A k \in 1..(Len(s) - 1) : s[k].deliv_per < s[k + 1].deliv_per
is_monotonic_increasing(s) ==
    \A k \in 1..(Len(s) - 1) : s[k].deliv_per <= s[k + 1].deliv_per

\* get_filtered_stocks(volume_threshold): the symbols appended to
\* accumulating_stocks (dashboard.py:10-31)
get_filtered_stocks(threshold, db) ==
    LET query == {e \in db : e.series = "EQ" /\ e.deliv_per > 60}
        df == {e \in query : e.total_traded_qty >= threshold}
    IN  {sym \in {e.symbol : e \in df} :
            is_monotonic_increasing(
                sort_values({e \in df : e.symbol = sym}))}

\* the days rows are dated, and the day the analysis runs: the last of them
AnalysisDays == {1, 2, 3}
AnalysisToday == CHOOSE d \in AnalysisDays : \A e \in AnalysisDays : e <= d

\* what a row holds beside its key
AnalysisValues ==
    {[series |-> "EQ", deliv_per |-> p, deliv_qty |-> v.q,
      no_of_trades |-> v.t, volume |-> v.v] :
        p \in {55, 65, 72},
        v \in {[q |-> 100, t |-> 50000, v |-> 500],
               [q |-> 100, t |-> 200000, v |-> 500],
               [q |-> 300, t |-> 200000, v |-> 2000000]}}
    \cup {[series |-> "BE", deliv_per |-> 65, deliv_qty |-> 300,
           no_of_trades |-> 200000, volume |-> 2000000]}

AnalysisKeys == AnalysisDays \X Symbols

\* the tables of at most MaxTableRows rows, (date, symbol) unique
AnalysisTables ==
    UNION {[K -> AnalysisValues] :
              K \in {x \in SUBSET AnalysisKeys :
                        Cardinality(x) <= MaxTableRows}}

\* a table as rows of bhavcopy_data.db
StoreOf(t) ==
    SetToBag({[date |-> Day(k[1]), symbol |-> k[2], series |-> t[k].series,
               deliv_per |-> t[k].deliv_per, deliv_qty |-> t[k].deliv_qty,
               ttl_trd_qnty |-> t[k].volume,
               no_of_trades |-> t[k].no_of_trades, close_price |-> 10] :
                 k \in DOMAIN t})

\* the same table as rows of the screener's bhavcopy.db
TableOf(t) ==
    {[date |-> k[1], symbol |-> k[2], series |-> t[k].series,
      deliv_per |-> t[k].deliv_per,
      total_traded_qty |-> t[k].volume] : k \in DOMAIN t}

InitAnalyze ==
    /\ \E t \in AnalysisTables :
          /\ store = StoreOf(t)
          /\ table = TableOf(t)
    /\ pc = "analyze"
    /\ today = AnalysisToday
    /\ cache = <<>>
    /\ i = 0
    /\ date = 0
    /\ attempts = 0
    /\ file_path = NonePath
    /\ steps = 0
    /\ fetch_log = <<>>
    /\ report = <<>>
    /\ IngestIdle
    /\ volume_threshold = 0
    /\ accumulation_df = [days |-> 0, rows |-> <<>>]
    /\ accumulating_stocks = {}

\* accumulation_df = get_accumulation_stocks(days)  (bhav.py:188)
GetAccumulation ==
    /\ pc = "analyze"
    /\ \E days \in {0, 1, 5} :
          \E rows \in get_accumulation_stocks(days, today, store) :
              accumulation_df' = [days |-> days, rows |-> rows]
    /\ pc' = "accumulated"
    /\ UNCHANGED << store, pipelineVars, ingestVars, table, volume_threshold,
                    accumulating_stocks >>

\* df, accumulating_stocks = get_filtered_stocks(volume_threshold)
\* (dashboard.py:38-41)
GetFiltered ==
    /\ pc = "accumulated"
    /\ \E v \in {0, 1000000} :
          /\ volume_threshold' = v
          /\ accumulating_stocks' = get_filtered_stocks(v, table)
    /\ pc' = "screened"
    /\ UNCHANGED << store, pipelineVars, ingestVars, table, accumulation_df >>

NextAnalyze == GetAccumulation \/ GetFiltered

SpecAnalyze == InitAnalyze /\ [][NextAnalyze]_vars

-----------------------------------------------------------------------------
(* Claims checked under SpecIngest *)

\* C1: ingesting the same file a second time leaves the table as the first
\* ingestion left it: nothing is appended and nothing is overwritten.
C1_ReingestLeavesStore == pc = "again" => store = before

\* the series is EQ once trimmed
C6_IsEQ(r) == strip_cell(read_csv(r.SERIES)) = <<"E", "Q">>

\* the delivery percentage as the normalizer reads it
C6_Percent(r) == deliv_per_float(strip_cell(read_csv(r.DELIV_PER)))

\* C6: when a file with all required columns holds an EQ row whose delivery
\* percentage is no number, that row is dropped and every other row that is
\* EQ with a percentage above 60 is in the table after the ingestion.
C6_UnparsableRowDropped ==
    ( /\ pc = "second"
      /\ missing_cols(file) = {}
      /\ \E k \in 1..Len(file.rows) :
            C6_IsEQ(file.rows[k]) /\ ~C6_Percent(file.rows[k]).ok )
    => \A k \in 1..Len(file.rows) :
          ( /\ C6_IsEQ(file.rows[k])
            /\ C6_Percent(file.rows[k]).ok
            /\ ~C6_Percent(file.rows[k]).nan
            /\ C6_Percent(file.rows[k]).val > 60 )
          => \E e \in BagToSet(store) : e.symbol = file.rows[k].SYMBOL

\* the required columns, as the claim lists them
C8_Required ==
    {"SYMBOL", "SERIES", "DELIV_PER", "DELIV_QTY", "TTL_TRD_QNTY",
     "CLOSE_PRICE", "NO_OF_TRADES", "DATE"}

\* the required columns no header of f stands for, DATE1 standing for DATE
C8_Lacking(f) ==
    {c \in C8_Required :
        \A h \in f.header :
            /\ StripUpper(h) # c
            /\ ~(c = "DATE" /\ StripUpper(h) = "DATE1")}

\* C8: a call on a file lacking a required column returns None with the
\* missing-columns message naming exactly the lacking columns, and leaves
\* the table as it was.
C8_SchemaErrorLeavesStore ==
    (pc \in {"first", "second", "again"} /\ C8_Lacking(file) # {})
    => /\ last.ret = None
       /\ last.msg = "Missing columns in Bhavcopy file"
       /\ last.missing = C8_Lacking(file)
       /\ store = before

\* a file lacking SERIES was refused while the table held rows
C8_Witness ==
    /\ pc = "second"
    /\ "SERIES" \in C8_Lacking(file)
    /\ last.msg = "Missing columns in Bhavcopy file"
    /\ BagCardinality(store) > 0

-----------------------------------------------------------------------------
(* Claims checked under Spec *)

\* the fetches of one requested date end with a transport error
C2_Aborted(fetches, path) ==
    \A k \in 1..Len(fetches) :
        fetches[k].result = "error" => (k = Len(fetches) /\ path = NonePath)

\* C2: a transport error on any fetch of a requested date is the last fetch
\* for that date, and no file is returned or processed for it.
C2_TransportErrorAborts ==
    /\ C2_Aborted(fetch_log, file_path)
    /\ (fetch_log # <<>> /\ fetch_log[Len(fetch_log)].result = "error")
          => pc \notin {"download", "skip"}
    /\ \A k \in 1..Len(report) :
          /\ C2_Aborted(report[k].fetches, report[k].found)
          /\ (report[k].fetches # <<>>
              /\ report[k].fetches[Len(report[k].fetches)].result = "error")
                => report[k].ret = "not run"

\* a transport error on a backward retry ended the search for the first
\* requested date, and the next date was still handled
C2_Witness ==
    /\ Len(report) >= 2
    /\ Len(report[1].fetches) >= 2
    /\ report[1].fetches[Len(report[1].fetches)].result = "error"

\* the first fetch of entry e found no file and a later one succeeded
C3_FellBack(e) ==
    /\ Len(e.fetches) >= 2
    /\ e.fetches[1].result = "absent"
    /\ e.fetches[Len(e.fetches)].result = "200"

\* C3: a requested date whose file is absent and whose search succeeds on an
\* earlier day is processed once, on that earlier day's file; the rows of
\* the batch carry the earlier day, not the requested one; and of several
\* requested dates that end on the same file only one appends rows.
C3_FallbackBatchDatedAtFile ==
    /\ \A k \in 1..Len(report) :
          C3_FellBack(report[k]) =>
             /\ report[k].found = PathOf(report[k].fetches[Len(report[k].fetches)].date)
             /\ report[k].found[1] < report[k].requested
             /\ report[k].ret # "not run"
             /\ \A j \in 1..Len(report[k].rows) :
                   /\ report[k].rows[j].date = Day(report[k].found[1])
                   /\ report[k].rows[j].date # Day(report[k].requested)
    /\ \A j, k \in 1..Len(report) :
          (j < k /\ report[j].found = report[k].found
           /\ report[j].found # NonePath /\ report[j].rows # <<>>)
          => report[k].rows = <<>>
    /\ \A e \in BagToSet(store) : CopiesIn(e, store) = 1

\* two requested dates fell back to one earlier file; the first appended its
\* rows and the second appended none
C3_Witness ==
    /\ Len(report) >= 2
    /\ C3_FellBack(report[1])
    /\ report[1].rows # <<>>
    /\ report[2].found = report[1].found
    /\ report[2].rows = <<>>
    /\ report[2].ret = "df"

\* some step of the script can be taken (Process is enabled exactly when a
\* file was returned, which is then on disk)
C4_CanStep ==
    \/ ENABLED (LoopNext \/ LoopEnd \/ Cached \/ FetchAbsent \/ FetchError
                \/ Exhausted \/ SkipWeekend \/ SkipDone \/ NoFileReturned)
    \/ (pc = "process" /\ file_path # NonePath
        /\ file_path[1] \in DOMAIN cache)

\* C4: the loop is never left by an exception, every date of the window gets
\* its entry in turn, whatever the earlier entries were, and the script
\* reaches the end of the window.
C4_WindowCompletes ==
    /\ pc # "aborted"
    /\ Len(report) = i
    /\ i <= Days
    /\ \A k \in 1..Len(report) : report[k].requested = today - (k - 1)
    /\ pc = "done" => i = Days
    /\ pc # "done" => C4_CanStep

\* the window was finished after a processing error on its first date and a
\* transport error or a missing file on its second
C4_Witness ==
    /\ pc = "done"
    /\ report[1].msg = "Error processing Bhavcopy file"
    /\ report[2].ret = "not run"

\* the outcome of entry e is that no row qualified
C7_NoQualifyingRows(e) ==
    \/ e.msg = "No stocks found with DELIV_PER > 60%"
    \/ (e.ret = "df" /\ e.rows = <<>>)

\* the outcome of entry e is an error, or rows were ingested
C7_ErrorOrIngested(e) ==
    \/ e.msg = "Missing columns in Bhavcopy file"
    \/ e.msg = "Error processing Bhavcopy file"
    \/ (e.ret = "df" /\ e.rows # <<>>)

\* C7: a date for which no row qualified is reported differently from a date
\* that ended in a schema or processing error and from a date that ingested
\* rows.
C7_NoQualifyingRowsDistinct ==
    \A j, k \in 1..Len(report) :
        (C7_NoQualifyingRows(report[j]) /\ C7_ErrorOrIngested(report[k]))
        => report[j].shown # report[k].shown

\* the search is under way
C9_Searching(p) == p \in {"download", "skip"}

\* what is left of the search: attempts first, then the steps of a step back
C9_Measure(p, a, s) == 10 * a + (IF p = "skip" THEN 8 - s ELSE 9)

C9_Bounded ==
    /\ Len(fetch_log) <= 3
    /\ steps <= 7
    /\ attempts \in 0..3
    /\ (pc = "download" /\ fetch_log # <<>>) => weekday(date) \notin {5, 6}
    /\ \A k \in 1..Len(report) :
          /\ Len(report[k].fetches) <= 3
          /\ \A j \in 2..Len(report[k].fetches) :
                weekday(report[k].fetches[j].date) \notin {5, 6}
          /\ ( /\ Len(report[k].fetches) = 3
                /\ \A j \in 1..3 : report[k].fetches[j].result = "absent" )
             => (report[k].found = NonePath /\ report[k].ret = "not run")
          /\ report[k].found = NonePath
             => \/ report[k].fetches[Len(report[k].fetches)].result = "error"
                \/ /\ Len(report[k].fetches) = 3
                   /\ \A j \in 1..3 : report[k].fetches[j].result = "absent"

\* C9: the search makes at most 3 fetches; a step back makes at most 7
\* decrements and ends on a day that is neither Saturday nor Sunday; every
\* step of the search lowers a measure that is never negative; and a search
\* that finds every file absent returns no file.
C9_SearchTerminates ==
    /\ []C9_Bounded
    /\ [][ (C9_Searching(pc) /\ C9_Searching(pc'))
           => /\ C9_Measure(pc', attempts', steps') <
                    C9_Measure(pc, attempts, steps)
              /\ C9_Measure(pc', attempts', steps') >= 0 ]_vars

\* three fetches found nothing, the second after a step back over a weekend
C9_Witness ==
    /\ Len(report) >= 1
    /\ Len(report[1].fetches) = 3
    /\ \A j \in 1..3 : report[1].fetches[j].result = "absent"
    /\ report[1].fetches[2].date = report[1].fetches[1].date - 3
    /\ report[1].found = NonePath

-----------------------------------------------------------------------------
(* Claims checked under SpecAnalyze *)

\* the records of sym, all of them
C5_Records(sym) == {e \in table : e.symbol = sym}

\* the records of sym the screener keeps
C5_Kept(sym) ==
    {e \in table : /\ e.symbol = sym
                   /\ e.series = "EQ"
                   /\ e.deliv_per > 60
                   /\ e.total_traded_qty >= volume_threshold}

\* the delivery percentage never decreases from a record of S to a later one
C5_NonDecreasing(S) ==
    \A e1, e2 \in S : e1.date < e2.date => e1.deliv_per <= e2.deliv_per

C10_Window(sym, W) ==
    {e \in BagToSet(store) :
        e.symbol = sym /\ e.date.kind = "day" /\ e.date.day >= today - W}

RECURSIVE C10_Sum(_, _)
C10_Sum(S, c) ==
    IF S = {} THEN 0
    ELSE LET x == CHOOSE x \in S : TRUE IN x[c] + C10_Sum(S \ {x}, c)

\* the mean of column c over S is above bound
C10_MeanAbove(S, c, bound) == C10_Sum(S, c) > bound * Cardinality(S)

\* the mean of column c over S is at least that over T
C10_MeanAtLeast(S, T, c) ==
    C10_Sum(S, c) * Cardinality(T) >= C10_Sum(T, c) * Cardinality(S)

\* C10: the summary lists, once each, exactly the symbols whose rows of the
\* last W days have a mean delivery percentage above 60 and a mean number of
\* trades above 100000, in descending order of mean delivery quantity.
C10_SummaryIsExact ==
    pc \in {"accumulated", "screened"} =>
       LET W == accumulation_df.days
           rows == accumulation_df.rows
       IN  /\ {rows[k].symbol : k \in 1..Len(rows)} =
                 {sym \in Symbols :
                     /\ C10_Window(sym, W) # {}
                     /\ C10_MeanAbove(C10_Window(sym, W), "deliv_per", 60)
                     /\ C10_MeanAbove(C10_Window(sym, W), "no_of_trades",
                                      100000)}
           /\ \A j, k \in 1..Len(rows) :
                 j < k =>
                    /\ rows[j].symbol # rows[k].symbol
                    /\ C10_MeanAtLeast(C10_Window(rows[j].symbol, W),
                                       C10_Window(rows[k].symbol, W),
                                       "deliv_qty")

\* both symbols are listed, the first with the strictly larger mean delivery
\* quantity, while a stored row lies outside the window
C10_Witness ==
    /\ pc = "accumulated"
    /\ Len(accumulation_df.rows) = 2
    /\ ~C10_MeanAtLeast(C10_Window(accumulation_df.rows[2].symbol,
                                   accumulation_df.days),
                        C10_Window(accumulation_df.rows[1].symbol,
                                   accumulation_df.days), "deliv_qty")
    /\ \E e \in BagToSet(store) : e.date.day < today - accumulation_df.days

=============================================================================
